---- MODULE Spec2Model ----
(***************************************************************************)
(* A model of typescript-event-emitter: the listener registry (on / off /  *)
(* separator resolution) and the dispatch engine (emit, the four listener  *)
(* groups, per-listener concurrency admission and the pending queue).      *)
(*                                                                         *)
(* Strings are sequences of one-character strings, so that split,          *)
(* startsWith and endsWith are computed as String.prototype computes them. *)
(* An optional value (an absent option) is <<>>, a present one <<v>>; the  *)
(* optional separator is the string itself, '' and undefined both being    *)
(* falsy for getPrioritizedValue.                                          *)
(***************************************************************************)
EXTENDS Integers, Sequences, FiniteSets, TLC

VARIABLES
  eventNamespaces,     \* Record<string, EventNamespace>, in key insertion order
  eventFilters,        \* EventFilter[]
  globalOption,        \* GlobalOption
  executingListeners,  \* Record<id, number>
  listenerQueue,       \* pending invocations
  nextId,              \* the next uuid
  emits,               \* history: one entry per emit call, with its promise
  att,                 \* history: one entry per processListener call of a dispatch
  errorSink,           \* history: what handleListenerError wrote to console.error
  now,                 \* Date.now()
  lastCallTime,        \* per throttled listener: lastCallTime of its closure
  timeout,             \* per debounced listener: the pending timer of its closure
  calls,               \* history: one entry per execution of a user callback
  lastOff,             \* history: the latest off / removeSubscription call, in the
                       \* specifications that record it
  eventHistory         \* EventHistory[] of ListenerManager; EventEmitter.ts has none

vars == <<eventNamespaces, eventFilters, globalOption, executingListeners,
          listenerQueue, nextId, emits, att, errorSink,
          now, lastCallTime, timeout, calls, lastOff, eventHistory>>

-----------------------------------------------------------------------------
(* Bounds of the model *)

MaxListeners == 3        \* on calls, specification Spec
MaxEmits == 3            \* emit calls, specification Spec
MaxAttempts == 4         \* processListener calls of dispatches, specification Spec
MaxMatchListeners == 2   \* on calls, specification SpecMatch
MaxMatchEmits == 2       \* emit calls, specification SpecMatch
MaxTimeListeners == 1    \* on calls, specification SpecTime
MaxTimeEmits == 3        \* emit calls, specification SpecTime
MaxTime == 4             \* milliseconds that pass, specification SpecTime
Delay == 2               \* the throttle and debounce delay of SpecTime, in milliseconds
MaxRegListeners == 3     \* on calls, specification SpecRegistry
MaxRemovals == 1         \* off and removeSubscription calls, specification SpecRegistry
MaxEventLen == 4         \* characters of an event string, specification SpecParse
MaxParseListeners == 1   \* on calls, specification SpecParse
MaxOptListeners == 2     \* on calls, specification SpecOptions
MaxOptEmits == 1         \* emit calls, specification SpecOptions
MaxErrListeners == 2     \* on calls, specification SpecErrors
MaxErrEmits == 2         \* emit calls, specification SpecErrors
MaxBusListeners == 2     \* on calls, specification SpecBus
MaxBusEmits == 2         \* emit calls, specification SpecBus
MaxRegEmits == 2         \* emit calls, specification SpecRegistry

-----------------------------------------------------------------------------
(* Constants.ts *)

defaultSeparator == <<".">>
defaultWildCard == <<"*">>
wildCardNamespace == <<>>
Infinity == 1000000

\* Date.now() when the emitter is constructed: milliseconds since 1970, beyond
\* every delay a listener is registered with
startTime == 1000

-----------------------------------------------------------------------------
(* String.prototype helpers *)

startsWith(s, p) == Len(p) <= Len(s) /\ SubSeq(s, 1, Len(p)) = p

endsWith(s, p) == Len(p) <= Len(s) /\ SubSeq(s, Len(s) - Len(p) + 1, Len(s)) = p

RECURSIVE splitFrom(_, _, _, _)
splitFrom(s, sep, i, cur) ==
  IF i > Len(s) THEN <<cur>>
  ELSE IF startsWith(SubSeq(s, i, Len(s)), sep)
       THEN <<cur>> \o splitFrom(s, sep, i + Len(sep), <<>>)
       ELSE splitFrom(s, sep, i + 1, Append(cur, s[i]))

split(s, sep) ==
  IF sep = <<>> THEN [i \in 1..Len(s) |-> <<s[i]>>]
  ELSE splitFrom(s, sep, 1, <<>>)

-----------------------------------------------------------------------------
(* Utils.ts *)

parseEvent(event, separator) ==
  LET parts == split(event, separator)
      namespace == IF Len(parts) > 1 THEN parts[1] ELSE <<>>
      eventName == parts[Len(parts)]
  IN  <<namespace, eventName>>

\* Array.prototype.findIndex, 0 for -1
findIndex(seq, P(_)) ==
  IF \E i \in 1..Len(seq) : P(seq[i])
  THEN CHOOSE i \in 1..Len(seq) : P(seq[i]) /\ \A j \in 1..(i - 1) : ~P(seq[j])
  ELSE 0

insertAt(seq, i, x) == SubSeq(seq, 1, i - 1) \o <<x>> \o SubSeq(seq, i, Len(seq))

removeAt(seq, i) == SubSeq(seq, 1, i - 1) \o SubSeq(seq, i + 1, Len(seq))

\* insertSorted with >= for >
insertSortedUnstable(listeners, listenerObject) ==
  LET Lower(l) == listenerObject.priority >= l.priority
      index == findIndex(listeners, Lower)
  IN  IF index = 0 THEN Append(listeners, listenerObject)
      ELSE insertAt(listeners, index, listenerObject)

\* insertSorted with < for >
insertSortedAscending(listeners, listenerObject) ==
  LET Lower(l) == listenerObject.priority < l.priority
      index == findIndex(listeners, Lower)
  IN  IF index = 0 THEN Append(listeners, listenerObject)
      ELSE insertAt(listeners, index, listenerObject)

\* const index = listeners.findIndex(l => listenerObject.priority > l.priority);
\* push when index === -1, splice(index, 0, listenerObject) otherwise
insertSorted(listeners, listenerObject) ==
  LET Lower(l) == listenerObject.priority > l.priority
      index == findIndex(listeners, Lower)
  IN  IF index = 0 THEN Append(listeners, listenerObject)
      ELSE insertAt(listeners, index, listenerObject)

isObjectEmpty(obj) == Len(obj) = 0

\* getPrioritizedValue preferring the default value
getPrioritizedValueDefaultFirst(defaultVal, newVal) ==
  IF defaultVal # <<>> THEN defaultVal ELSE newVal

\* if (newVal) return newVal; return defaultVal;  undefined and "" are <<>>
getPrioritizedValue(defaultVal, newVal) ==
  IF newVal # <<>> THEN newVal ELSE defaultVal

\* eventNamespaces[namespace]?.[eventName]?.listeners ?? []
nsIndex(reg, namespace) ==
  LET Is(n) == n.ns = namespace IN findIndex(reg, Is)

evIndex(events, eventName) ==
  LET Is(e) == e.name = eventName IN findIndex(events, Is)

listenersOf(reg, namespace, eventName) ==
  LET n == nsIndex(reg, namespace)
      e == IF n = 0 THEN 0 ELSE evIndex(reg[n].events, eventName)
  IN  IF e = 0 THEN <<>> ELSE reg[n].events[e].listeners

throttledOf(reg, namespace, eventName) ==
  LET n == nsIndex(reg, namespace)
      e == IF n = 0 THEN 0 ELSE evIndex(reg[n].events, eventName)
  IN  IF e = 0 THEN FALSE ELSE reg[n].events[e].throttled

\* eventNamespaces and its namespace objects are plain objects ({}): a key that
\* is not an own property is looked up in Object.prototype.  "constructor" is
\* such a key (toString, valueOf and hasOwnProperty are others).  The events of
\* the specifications have no namespace that is such a key.
objectPrototypeKeys == {<<"c", "o", "n", "s", "t", "r", "u", "c", "t", "o", "r">>}

\* namespaceObject[eventName] is an inherited function: truthy, and without a
\* listeners property
inherits(events, eventName) ==
  evIndex(events, eventName) = 0 /\ eventName \in objectPrototypeKeys

\* foundListener?.eventInfo.separator || null, null being <<>>
findSeparatorInListeners(listeners, P(_)) ==
  LET i == findIndex(listeners, P)
  IN  IF i = 0 THEN <<>> ELSE listeners[i].eventInfo.separator

findSeparatorForEvent(event, reg, namespace, eventName, isWildcard) ==
  LET listeners == listenersOf(reg, namespace, eventName)
      Prefix(l) == startsWith(event, namespace)
      Same(l) == l.eventInfo.event = event
      Suffix(l) == endsWith(event, l.eventInfo.separator \o eventName)
      exact == findSeparatorInListeners(listeners, Same)
  IN  IF isWildcard THEN findSeparatorInListeners(listeners, Prefix)
      ELSE IF exact # <<>> THEN exact
      ELSE IF namespace = defaultWildCard
           THEN findSeparatorInListeners(listeners, Suffix)
           ELSE <<>>

\* the (namespace, eventName) keys in Object.entries order
bucketKeys(reg) ==
  LET RECURSIVE keysFrom(_)
      keysFrom(n) ==
        IF n > Len(reg) THEN <<>>
        ELSE [e \in 1..Len(reg[n].events) |-> <<reg[n].ns, reg[n].events[e].name>>]
             \o keysFrom(n + 1)
  IN  keysFrom(1)

findEventInfo(event, reg) ==
  LET keys == bucketKeys(reg)
      Sep(k) == findSeparatorForEvent(event, reg, k[1], k[2], k[2] = defaultWildCard)
      Found(k) == Sep(k) # <<>>
      i == findIndex(keys, Found)
  IN  IF i = 0 THEN defaultSeparator ELSE Sep(keys[i])

-----------------------------------------------------------------------------
(* User-supplied values: callbacks, emit arguments, filters *)

\* What a listener can throw or reject with: an Error object, or undefined.
Errors == {"Error", "undefined"}

\* Callback "t" is () => { throw new Error() }; every other callback returns
\* (or returns a promise), and the invocation settles in a later task.  A
\* throttle or debounce wrapper is an async function: it never throws
\* synchronously.
throwsSynchronously(listener) == listener.fn = "t" /\ listener.wrap = "none"
thrownBy(listener, args) == "Error"

\* EventFilter functions a registration can supply.
filterFn(filter, eventName, namespace) ==
  CASE filter = "nsIsN" -> namespace = <<"n">>
    [] filter = "evIsX" -> eventName = <<"x">>
    [] OTHER -> FALSE

-----------------------------------------------------------------------------
(* EventEmitter.ts: the registry *)

\* throttle !== undefined ? this.throttle(listener, throttle, eventName)
\*   : debounce !== undefined ? this.debounce(listener, debounce, eventName) : listener
\* A wrapper is a new function: it keeps the callback, the delay and the event
\* name in its closure.
\* the same with the debounce option looked at first
throttledListenerOfDebounceFirst(listener, option, eventName) ==
  IF option.debounce # <<>>
  THEN [fn |-> listener, wrap |-> "debounce", delay |-> option.debounce[1],
        eventName |-> eventName]
  ELSE IF option.throttle # <<>>
  THEN [fn |-> listener, wrap |-> "throttle", delay |-> option.throttle[1],
        eventName |-> eventName]
  ELSE [fn |-> listener, wrap |-> "none"]

throttledListenerOf(listener, option, eventName) ==
  IF option.throttle # <<>>
  THEN [fn |-> listener, wrap |-> "throttle", delay |-> option.throttle[1],
        eventName |-> eventName]
  ELSE IF option.debounce # <<>>
  THEN [fn |-> listener, wrap |-> "debounce", delay |-> option.debounce[1],
        eventName |-> eventName]
  ELSE [fn |-> listener, wrap |-> "none"]

listenerObjectOf(listener, option, eventInfo, id) ==
  [listener    |-> throttledListenerOf(listener, option,
                                       parseEvent(eventInfo.event, eventInfo.separator)[2]),
   priority    |-> IF option.priority = <<>> THEN 0 ELSE option.priority[1],
   eventInfo   |-> eventInfo,
   concurrency |-> IF option.concurrency = <<>> THEN Infinity ELSE option.concurrency[1],
   id          |-> id]

addListener(reg, globalSeparator, event, listener, option, id) ==
  LET usedSeparator == getPrioritizedValue(globalSeparator, option.separator)
      eventInfo == [separator |-> usedSeparator, event |-> event]
      pe == parseEvent(event, usedSeparator)
      namespace == pe[1]
      eventName == pe[2]
      listenerObject == listenerObjectOf(listener, option, eventInfo, id)
      reg1 == IF nsIndex(reg, namespace) = 0
              THEN Append(reg, [ns |-> namespace, events |-> <<>>])
              ELSE reg
      n == nsIndex(reg1, namespace)
      evs1 == IF evIndex(reg1[n].events, eventName) = 0
              THEN Append(reg1[n].events,
                          [name |-> eventName, listeners |-> <<>>, throttled |-> FALSE])
              ELSE reg1[n].events
      e == evIndex(evs1, eventName)
      evs2 == [evs1 EXCEPT ![e].listeners = insertSorted(@, listenerObject),
                           ![e].throttled = option.throttle # <<>>]
  IN  IF inherits(reg1[n].events, eventName) THEN reg1
      ELSE [reg1 EXCEPT ![n].events = evs2]

\* insertSorted(undefined, listenerObject) throws a TypeError: the namespace
\* object has been created by then, the filter has not been pushed
addListenerThrowsParsed(reg, namespace, eventName) ==
  eventName \in objectPrototypeKeys
  /\ (nsIndex(reg, namespace) = 0
      \/ evIndex(reg[nsIndex(reg, namespace)].events, eventName) = 0)

addListenerThrows(globalSeparator, event, option, reg) ==
  LET pe == parseEvent(event, getPrioritizedValue(globalSeparator, option.separator))
  IN  addListenerThrowsParsed(reg, pe[1], pe[2])

\* A callback passed to off is the user's function: it is the stored listener
\* of a record only if that record was registered without throttle and debounce.
\* listenerOrId is <<"listener", callback>> or <<"id", id>>.
\*   typeof listenerOrId === 'string' ? l.id === listenerOrId
\*                                    : l.listener === listenerOrId
isListenerOrId(l, listenerOrId) ==
  IF listenerOrId[1] = "id" THEN l.id = listenerOrId[2]
  ELSE l.listener = [fn |-> listenerOrId[2], wrap |-> "none"]

\* off from its line 98 on: namespace and eventName are the parsed event
removeParsed(reg, namespace, eventName, listenerOrId) ==
  LET n == nsIndex(reg, namespace)
      e == IF n = 0 THEN 0 ELSE evIndex(reg[n].events, eventName)
      Is(l) == isListenerOrId(l, listenerOrId)
      index == IF e = 0 THEN 0 ELSE findIndex(reg[n].events[e].listeners, Is)
      listeners == removeAt(reg[n].events[e].listeners, index)
      events == IF Len(listeners) = 0 THEN removeAt(reg[n].events, e)
                ELSE [reg[n].events EXCEPT ![e].listeners = listeners]
  IN  IF index = 0 THEN reg
      ELSE IF isObjectEmpty(events) THEN removeAt(reg, n)
      ELSE [reg EXCEPT ![n].events = events]

\* const [namespace, eventName] = parseEvent(event, separator)
removeResolved(reg, pe, listenerOrId) == removeParsed(reg, pe[1], pe[2], listenerOrId)

removeSubscriptionOrListener(reg, event, listenerOrId) ==
  removeResolved(reg, parseEvent(event, findEventInfo(event, reg)), listenerOrId)

\* namespaceObject[eventName].listeners is undefined and listeners.findIndex
\* throws a TypeError; nothing has been changed by then
removeThrowsParsed(reg, namespace, eventName) ==
  nsIndex(reg, namespace) # 0
  /\ inherits(reg[nsIndex(reg, namespace)].events, eventName)

removeThrowsResolved(reg, pe) == removeThrowsParsed(reg, pe[1], pe[2])

removeThrows(reg, event) ==
  removeThrowsResolved(reg, parseEvent(event, findEventInfo(event, reg)))

removeListener(reg, event, listener) ==
  removeSubscriptionOrListener(reg, event, <<"listener", listener>>)

\* const listeners = this.eventNamespaces[namespace]?.[eventName]?.listeners ?? []
inspectResolved(reg, pe) == listenersOf(reg, pe[1], pe[2])

inspectSubscription(reg, event) ==
  inspectResolved(reg, parseEvent(event, findEventInfo(event, reg)))

\* event: namespace ? `${namespace}.${eventName}` : eventName
subscriptionEvent(namespace, eventName) ==
  IF namespace # <<>> THEN namespace \o <<".">> \o eventName ELSE eventName

\* for (const namespace in eventNamespaces) for (const eventName in ...)
\*   subscriptions.push({ event, listenerCount: listeners.length })
listSubscriptions(reg) ==
  [k \in 1..Len(bucketKeys(reg)) |->
     [event |-> subscriptionEvent(bucketKeys(reg)[k][1], bucketKeys(reg)[k][2]),
      listenerCount |-> Len(listenersOf(reg, bucketKeys(reg)[k][1], bucketKeys(reg)[k][2]))]]

-----------------------------------------------------------------------------
(* EventEmitter.ts: the dispatch engine.                                   *)
(*                                                                         *)
(* The synchronous part of a call runs inside one action; M is the machine *)
(* state it threads: ex = executingListeners, q = listenerQueue, at = att, *)
(* em = emits, er = errorSink, lc = lastCallTime, tm = timeout, cl = calls *)
(* hi = eventHistory, ns = eventNamespaces, id = nextId and now, the clock. *)
(* A task is a queue entry plus a,                                         *)
(* the index of its att entry.  root is the emit whose Promise.all awaits  *)
(* the running promise chain, rej whether a frame of that chain holds an   *)
(* exception it rethrows once its finally block is through.                *)

\* The value of eventHistory in a specification of EventEmitter.ts, which
\* keeps no history: one entry of a listener id that no listener has.
noEventHistory == <<[event |-> <<>>, listenerId |-> 0, timestamp |-> 0, args |-> <<>>]>>

\* recordEventHistory putting the entry in front
recordEventHistoryFirst(history, event, listenerId, args, timestamp) ==
  IF history = noEventHistory THEN history
  ELSE <<[event |-> event, listenerId |-> listenerId, timestamp |-> timestamp,
          args |-> args]>> \o history

\* this.eventHistory.push({ event, listenerId, timestamp: Date.now(), args })
recordEventHistory(history, event, listenerId, args, timestamp) ==
  IF history = noEventHistory THEN history
  ELSE Append(history, [event |-> event, listenerId |-> listenerId,
                        timestamp |-> timestamp, args |-> args])

\* this.eventHistory.filter(history => !event || history.event === event)
getSpecificEventHistory(history, event) ==
  LET Matches(entry) == event = <<>> \/ entry.event = event
  IN  SelectSeq(history, Matches)

\* return this.eventHistory
getAllEventHistory(history) == history

startedCount(at) == Cardinality({a \in 1..Len(at) : at[a].start > 0})

\* console.error(`Error in listener for event ${eventName}:`, error)
handleListenerError(er, eventName, error) ==
  Append(er, [eventName |-> eventName, error |-> error])

\* console.error(error.stack) throws a TypeError when error is null or undefined
handleListenerErrorThrows(error) == error = "undefined"

\* One promise awaited by emit's Promise.all settles.
settle(M, root, rej) ==
  [M EXCEPT !.em[root].pend = @ - 1,
            !.em[root].rejected = @ \/ rej]

\* if (executingCount < concurrency)
admitsLoose(executingCount, concurrency) == executingCount <= concurrency
\* the same keeping one slot free
admitsBelowCap(executingCount, concurrency) == executingCount + 1 < concurrency
admits(executingCount, concurrency) == executingCount < concurrency

\* The user callback of task runs and receives the argument list received.
\* It runs under the try block of processListener, directly or through the
\* awaits of a throttle wrapper: what it throws does not escape.
callback(M, task, received) ==
  [M EXCEPT !.cl = Append(@, [id |-> task.id, a |-> task.a, received |-> received,
                              time |-> M.now, escapes |-> FALSE])]

\* if (now - lastCallTime >= delay), with > for >=
throttleAllowsStrict(nowTime, lastCall, delay) == nowTime - lastCall > delay

\* if (now - lastCallTime >= delay)
throttleAllows(nowTime, lastCall, delay) == nowTime - lastCall >= delay

\* The function throttle returns, called with (...args):
\* lastCallTime = now; await fn(eventName, ...args), eventName being the one of
\* the closure.
throttle(M, task, args) ==
  IF throttleAllows(M.now, M.lc[task.id], task.listener.delay)
  THEN callback([M EXCEPT !.lc[task.id] = M.now], task,
                <<task.listener.eventName>> \o args)
  ELSE M

\* debounce without clearTimeout: the earlier timer stays armed
debounceNoClear(M, task, args) ==
  [M EXCEPT !.tm[task.id] = @ \o <<[due |-> M.now + task.listener.delay, a |-> task.a,
                                    received |-> <<task.listener.eventName>> \o args]>>]

\* The function debounce returns, called with (...args):
\* clearTimeout(timeout); timeout = setTimeout(() => fn(eventName, ...args), delay)
debounce(M, task, args) ==
  [M EXCEPT !.tm[task.id] = <<[due |-> M.now + task.listener.delay, a |-> task.a,
                               received |-> <<task.listener.eventName>> \o args]>>]

\* listener(eventName, ...args) of processListener, up to the promise it returns
callListener(M, task) ==
  CASE task.listener.wrap = "throttle" -> throttle(M, task, <<task.eventName>> \o task.args)
    [] task.listener.wrap = "debounce" -> debounce(M, task, <<task.eventName>> \o task.args)
    [] OTHER -> callback(M, task, <<task.eventName>> \o task.args)

RECURSIVE processListener(_, _, _, _)
RECURSIVE dequeueNextListener(_, _, _, _)
RECURSIVE afterListener(_, _, _)

\* processListener once admitted: M has counted the invocation
invoke(M, task) ==
  IF throwsSynchronously(task.listener)
  THEN afterListener(M, task.a, <<thrownBy(task.listener, task.args)>>)
  ELSE M

processListener(M, task, root, rej) ==
  LET executingCount == M.ex[task.id]
  IN  IF admits(executingCount, task.concurrency)
      THEN invoke(callListener([M EXCEPT !.ex[task.id] = executingCount + 1,
                                         !.at[task.a].state = "running",
                                         !.at[task.a].start = startedCount(M.at) + 1,
                                         !.at[task.a].time = M.now,
                                         !.at[task.a].root = root,
                                         !.at[task.a].rej = rej],
                               task),
                  task)
      ELSE settle([M EXCEPT !.q = Append(@, task),
                            !.at[task.a].state = "queued",
                            !.at[task.a].deferred = TRUE],
                  root, rej)

\* afterListener without its finally block on the error path
afterListenerNoFinally(M, a, outcome) ==
  LET inv == M.at[a]
  IN  IF outcome # <<>>
      THEN settle([M EXCEPT !.er = handleListenerError(@, inv.eventName, outcome[1]),
                            !.at[a].state = "failed"],
                  inv.root, TRUE)
      ELSE dequeueNextListener([M EXCEPT !.at[a].state = "ok", !.ex[inv.id] = @ - 1,
                                         !.hi = recordEventHistory(@, inv.eventName, inv.id,
                                                                   inv.args, M.now)],
                               inv.id, inv.root, inv.rej)

\* processListener that gives the slot back at the end of its try block, not
\* in the finally block: a failed invocation keeps it
afterListenerSlotKeptOnError(M, a, outcome) ==
  LET inv == M.at[a]
      failed == outcome # <<>>
      M1 == IF failed
            THEN [M EXCEPT !.er = handleListenerError(@, inv.eventName, outcome[1]),
                           !.at[a].state = "failed"]
            ELSE [M EXCEPT !.at[a].state = "ok", !.ex[inv.id] = @ - 1,
                           !.hi = recordEventHistory(@, inv.eventName, inv.id, inv.args,
                                                     M.now)]
      rej == inv.rej \/ (failed /\ handleListenerErrorThrows(outcome[1]))
  IN  dequeueNextListener(M1, inv.id, inv.root, rej)

\* processListener whose finally block, after a failure, gives the slot back
\* and leaves the queue alone
afterListenerNoDrainOnFailure(M, a, outcome) ==
  LET inv == M.at[a]
  IN  IF outcome # <<>>
      THEN settle([M EXCEPT !.er = handleListenerError(@, inv.eventName, outcome[1]),
                            !.at[a].state = "failed", !.ex[inv.id] = @ - 1],
                  inv.root, inv.rej \/ handleListenerErrorThrows(outcome[1]))
      ELSE dequeueNextListener([M EXCEPT !.at[a].state = "ok", !.ex[inv.id] = @ - 1,
                                         !.hi = recordEventHistory(@, inv.eventName, inv.id,
                                                                   inv.args, M.now)],
                               inv.id, inv.root, inv.rej)

\* The catch and finally blocks of processListener, for the invocation att[a]
\* whose callback has settled: outcome is <<>> or <<the error>>.
afterListener(M, a, outcome) ==
  LET inv == M.at[a]
      failed == outcome # <<>>
      M1 == IF failed
            THEN [M EXCEPT !.er = handleListenerError(@, inv.eventName, outcome[1]),
                           !.at[a].state = "failed"]
            ELSE [M EXCEPT !.at[a].state = "ok",
                           !.hi = recordEventHistory(@, inv.eventName, inv.id, inv.args,
                                                     M.now)]
      rej == inv.rej \/ (failed /\ handleListenerErrorThrows(outcome[1]))
      M2 == [M1 EXCEPT !.ex[inv.id] = @ - 1]
  IN  dequeueNextListener(M2, inv.id, inv.root, rej)

\* dequeueNextListener that looks at the head of the queue only
dequeueNextListenerHeadOnly(M, id, root, rej) ==
  IF M.q # <<>> /\ M.q[1].id = id
  THEN processListener([M EXCEPT !.q = Tail(@)], M.q[1], root, rej)
  ELSE settle(M, root, rej)

\* dequeueNextListener that does not await the task it starts: the promise of
\* the completing invocation settles, the started task runs on behalf of the
\* emit that deferred it
dequeueNextListenerDetached(M, id, root, rej) ==
  LET Is(task) == task.id = id
      nextTaskIndex == findIndex(M.q, Is)
  IN  IF nextTaskIndex # 0
      THEN processListener(settle([M EXCEPT !.q = removeAt(@, nextTaskIndex)], root, rej),
                           M.q[nextTaskIndex], M.at[M.q[nextTaskIndex].a].emit, FALSE)
      ELSE settle(M, root, rej)

\* dequeueNextListener taking the last queued task of the listener, not the first
dequeueNextListenerLast(M, id, root, rej) ==
  LET queued == {k \in 1..Len(M.q) : M.q[k].id = id}
      nextTaskIndex == IF queued = {} THEN 0
                       ELSE CHOOSE k \in queued : \A j \in queued : j <= k
  IN  IF nextTaskIndex # 0
      THEN processListener([M EXCEPT !.q = removeAt(@, nextTaskIndex)],
                           M.q[nextTaskIndex], root, rej)
      ELSE settle(M, root, rej)

\* const nextTaskIndex = listenerQueue.findIndex(task => task.id === id), then
\* splice and processListener of that task
dequeueNextListener(M, id, root, rej) ==
  LET Is(task) == task.id = id
      nextTaskIndex == findIndex(M.q, Is)
  IN  IF nextTaskIndex # 0
      THEN processListener([M EXCEPT !.q = removeAt(@, nextTaskIndex)],
                           M.q[nextTaskIndex], root, rej)
      ELSE settle(M, root, rej)

\* specificListeners without its separator filter
specificListenersUnfiltered(reg, namespace, checkEventName, separator) ==
  listenersOf(reg, namespace, checkEventName)

\* specificListeners.filter(({ eventInfo }) => eventInfo.separator === separator)
specificListeners(reg, namespace, checkEventName, separator) ==
  LET Same(l) == l.eventInfo.separator = separator
  IN  SelectSeq(listenersOf(reg, namespace, checkEventName), Same)

\* The four executeSpecificListeners calls of emit, as <<namespace, checkEventName>>.
groupKeys(namespace, eventName) ==
  <<<<wildCardNamespace, defaultWildCard>>,
    <<namespace, defaultWildCard>>,
    <<defaultWildCard, eventName>>,
    <<namespace, eventName>>>>

groupSkipped(g, namespace) == g = 2 /\ wildCardNamespace = namespace

\* .map(async ({ listener, concurrency, id }) => processListener(...)) of group g
executeSpecificListeners(M, reg, e, g, namespace, checkEventName, eventName, separator, args) ==
  LET matched == specificListeners(reg, namespace, checkEventName, separator)
      isThrottled == throttledOf(reg, namespace, checkEventName)
      RECURSIVE run(_, _)
      run(M0, i) ==
        IF i > Len(matched) THEN M0
        ELSE LET l == matched[i]
                 a == Len(M0.at) + 1
                 task == [listener |-> l.listener, id |-> l.id,
                          concurrency |-> l.concurrency, isThrottled |-> isThrottled,
                          eventName |-> eventName, args |-> args, a |-> a]
                 entry == [listener |-> l.listener, id |-> l.id,
                           concurrency |-> l.concurrency, isThrottled |-> isThrottled,
                           eventName |-> eventName, args |-> args,
                           eventInfo |-> l.eventInfo, priority |-> l.priority, emit |-> e, group |-> g, pos |-> i,
                           state |-> "new", start |-> 0, time |-> 0, root |-> 0, rej |-> FALSE,
                           deferred |-> FALSE]
             IN  run(processListener([M0 EXCEPT !.at = Append(@, entry),
                                                !.em[e].pend = @ + 1],
                                     task, e, FALSE),
                     i + 1)
  IN  run(M, 1)

\* shouldEmit with every for some
shouldEmitEvery(filters, eventName, namespace) ==
  Len(filters) = 0
  \/ \A i \in 1..Len(filters) : filterFn(filters[i], eventName, namespace)

\* eventFilters.length === 0 || eventFilters.some(filter => filter(eventName, namespace))
shouldEmitOf(filters, eventName, namespace) ==
  Len(filters) = 0
  \/ \E i \in 1..Len(filters) : filterFn(filters[i], eventName, namespace)

\* A callback that enters the emitter again: callback "onX" is
\* () => emitter.on('x', f), callback "offX" is () => emitter.off('x', f).
reenters(M, fn) ==
  CASE fn = "onX" ->
         [M EXCEPT !.ns = addListener(@, globalOption.separator, <<"x">>, "f",
                                      [filter |-> <<>>, throttle |-> <<>>,
                                       debounce |-> <<>>, priority |-> <<>>,
                                       concurrency |-> <<>>, separator |-> <<>>],
                                      M.id),
                   !.id = @ + 1]
    [] fn = "offX" -> [M EXCEPT !.ns = removeListener(@, <<"x">>, "f")]
    [] OTHER -> M

\* What the callbacks called since call n did to the registry, in the order of
\* their calls.  Nothing reads the registry between these calls and the end
\* of the executeSpecificListeners call or finally block that made them: the
\* listeners of a group are taken from the registry before the first of them
\* is called.
RECURSIVE reentered(_, _)
reentered(M, n) ==
  IF n >= Len(M.cl) THEN M
  ELSE reentered(reenters(M, M.at[M.cl[n + 1].a].listener.fn), n + 1)

\* emit from its line 128 on, the filter gate and the four groups: separator is
\* the resolved separator, namespace and eventName the parsed event.  reg is
\* the registry when emit is called; each executeSpecificListeners call reads
\* this.eventNamespaces when its turn comes, after the synchronous part of
\* the listeners of the groups before it.  pend counts the processListener
\* promises of the emit that have not settled.
dispatchParsed(M, reg, filters, e, event, args, separator, namespace, eventName) ==
  LET shouldEmit == shouldEmitOf(filters, eventName, namespace)
      keys == groupKeys(namespace, eventName)
      M0 == [M EXCEPT !.em = Append(@,
               [event |-> event, args |-> args, separator |-> separator,
                namespace |-> namespace, eventName |-> eventName,
                shouldEmit |-> shouldEmit, reg |-> reg, filters |-> filters,
                pend |-> 0,
                rejected |-> FALSE])]
      RECURSIVE groups(_, _)
      groups(M1, g) ==
        IF g > 4 THEN M1
        ELSE IF groupSkipped(g, namespace) THEN groups(M1, g + 1)
        ELSE groups(reentered(executeSpecificListeners(M1, M1.ns, e, g, keys[g][1],
                                                       keys[g][2], eventName, separator,
                                                       args),
                              Len(M1.cl)),
                    g + 1)
  IN  IF shouldEmit THEN groups(M0, 1) ELSE M0

\* const [namespace, eventName] = parseEvent(event, separator)
dispatchResolved(M, reg, filters, e, event, args, separator, pe) ==
  dispatchParsed(M, reg, filters, e, event, args, separator, pe[1], pe[2])

\* const separator = findEventInfo(event, this.eventNamespaces)
dispatchWith(M, reg, filters, e, event, args, separator) ==
  dispatchResolved(M, reg, filters, e, event, args, separator,
                   parseEvent(event, separator))

\* emit: separator resolution, the filter gate, the four groups
dispatch(M, reg, filters, e, event, args) ==
  dispatchWith(M, reg, filters, e, event, args, findEventInfo(event, reg))

machine ==
  [ex |-> executingListeners, q |-> listenerQueue, at |-> att, em |-> emits,
   er |-> errorSink, lc |-> lastCallTime, tm |-> timeout, cl |-> calls, now |-> now,
   hi |-> eventHistory, ns |-> eventNamespaces, id |-> nextId]

install(M) ==
  /\ executingListeners' = M.ex
  /\ listenerQueue' = M.q
  /\ att' = M.at
  /\ emits' = M.em
  /\ errorSink' = M.er
  /\ lastCallTime' = M.lc
  /\ timeout' = M.tm
  /\ calls' = M.cl
  /\ eventHistory' = M.hi
  /\ eventNamespaces' = M.ns
  /\ nextId' = M.id

-----------------------------------------------------------------------------
(* The operations *)

on(event, listener, option) ==
  /\ eventNamespaces' = addListener(eventNamespaces, globalOption.separator,
                                    event, listener, option, nextId)
  /\ eventFilters' = IF option.filter # <<>>
                        /\ ~addListenerThrows(globalOption.separator, event, option,
                                              eventNamespaces)
                     THEN Append(eventFilters, option.filter[1])
                     ELSE eventFilters
  /\ nextId' = nextId + 1
  /\ UNCHANGED <<globalOption, executingListeners, listenerQueue, emits, att, errorSink,
                 now, lastCallTime, timeout, calls, lastOff, eventHistory>>

\* what lastOff keeps of a removal call: the registry before and after it,
\* whether the call threw, how many emits had been made, and n, the number of
\* removal calls so far
removalRecord(op, event, listenerOrId, after) ==
  IF lastOff.op = "unrecorded" THEN lastOff
  ELSE [op |-> op, event |-> event, listenerOrId |-> listenerOrId,
        before |-> eventNamespaces, after |-> after,
        threw |-> removeThrows(eventNamespaces, event),
        emits |-> Len(emits), n |-> lastOff.n + 1]

\* off that also empties the filter set
offClearingFilters(event, listener) ==
  /\ eventNamespaces' = removeListener(eventNamespaces, event, listener)
  /\ lastOff' = removalRecord("off", event, <<"listener", listener>>, eventNamespaces')
  /\ eventFilters' = <<>>
  /\ UNCHANGED <<globalOption, executingListeners, listenerQueue,
                 nextId, emits, att, errorSink, now, lastCallTime, timeout, calls,
                 eventHistory>>

off(event, listener) ==
  /\ eventNamespaces' = removeListener(eventNamespaces, event, listener)
  /\ lastOff' = removalRecord("off", event, <<"listener", listener>>, eventNamespaces')
  /\ UNCHANGED <<eventFilters, globalOption, executingListeners, listenerQueue,
                 nextId, emits, att, errorSink, now, lastCallTime, timeout, calls,
                 eventHistory>>

removeSubscription(event, listenerId) ==
  /\ eventNamespaces' = removeSubscriptionOrListener(eventNamespaces, event,
                                                     <<"id", listenerId>>)
  /\ lastOff' = removalRecord("removeSubscription", event, <<"id", listenerId>>,
                              eventNamespaces')
  /\ UNCHANGED <<eventFilters, globalOption, executingListeners, listenerQueue,
                 nextId, emits, att, errorSink, now, lastCallTime, timeout, calls,
                 eventHistory>>

setGlobalOptions(options) ==
  /\ globalOption' = options
  /\ UNCHANGED <<eventNamespaces, eventFilters, executingListeners, listenerQueue,
                 nextId, emits, att, errorSink, now, lastCallTime, timeout, calls, lastOff,
                 eventHistory>>

emit(event, args) ==
  /\ install(dispatch(machine, eventNamespaces, eventFilters, Len(emits) + 1, event, args))
  /\ UNCHANGED <<eventFilters, globalOption, now, lastOff>>

\* The timer of a debounced listener expires: fn(eventName, ...args) runs in
\* the async arrow function handed to setTimeout.  The promise of the wrapper
\* has long resolved and no handler is attached to the promise of the arrow
\* function: what fn throws rejects that promise and escapes, past
\* handleListenerError.
timerFires(id) ==
  /\ timeout[id] # <<>>
  /\ timeout[id][1].due <= now
  /\ calls' = Append(calls, [id |-> id, a |-> timeout[id][1].a,
                             received |-> timeout[id][1].received, time |-> now,
                             escapes |-> att[timeout[id][1].a].listener.fn = "t"])
  /\ timeout' = [timeout EXCEPT ![id] = Tail(@)]
  /\ UNCHANGED <<eventNamespaces, eventFilters, globalOption, executingListeners,
                 listenerQueue, nextId, emits, att, errorSink, now, lastCallTime, lastOff,
                 eventHistory>>

\* A timer that is due runs before the clock moves on.
timerDue == \E id \in DOMAIN timeout : timeout[id] # <<>> /\ timeout[id][1].due <= now

\* One millisecond passes.
tick ==
  /\ ~timerDue
  /\ now' = now + 1
  /\ UNCHANGED <<eventNamespaces, eventFilters, globalOption, executingListeners,
                 listenerQueue, nextId, emits, att, errorSink, lastCallTime, timeout,
                 calls, lastOff, eventHistory>>

\* The callback of the running invocation att[a] returns, resolves or rejects,
\* and processListener resumes after its await.
listenerSettles(a, outcome) ==
  /\ a \in 1..Len(att)
  /\ att[a].state = "running"
  /\ \E M \in {reentered(A, Len(calls)) : A \in {afterListener(machine, a, outcome)}} :
       install(M)
  /\ UNCHANGED <<eventFilters, globalOption, now, lastOff>>

-----------------------------------------------------------------------------
(* GlobalEventBus.ts: the singleton forwards to its one EventEmitter *)

\* on(event, listener, { filter, throttle, debounce, priority, separator } = {}):
\*   this.emitter.on(event, listener, { filter, throttle, debounce, priority, separator })
globalEventBusOn(event, listener, option) ==
  on(event, listener,
     [filter |-> option.filter, throttle |-> option.throttle,
      debounce |-> option.debounce, priority |-> option.priority,
      separator |-> option.separator, concurrency |-> <<>>])

\* emit(event, ...args): await this.emitter.emit(event, ...args); the catch
\* block writes to the console once the promise has rejected
globalEventBusEmit(event, args) == emit(event, args)

emitStatus(e) ==
  IF emits[e].rejected THEN "rejected"
  ELSE IF emits[e].pend = 0 THEN "resolved"
  ELSE "pending"

-----------------------------------------------------------------------------
(* Specification Spec: priorities and concurrency caps under the default   *)
(* separator, with overlapping emits and callbacks that throw, suspend,    *)
(* resolve and reject.                                                     *)

noOption ==
  [filter |-> <<>>, throttle |-> <<>>, debounce |-> <<>>, priority |-> <<>>,
   concurrency |-> <<>>, separator |-> <<>>]

\* new EventEmitter()
construct ==
  /\ eventNamespaces = <<>>
  /\ eventFilters = <<>>
  /\ globalOption = [separator |-> defaultSeparator]
  /\ executingListeners = [id \in 1..(MaxListeners + MaxMatchListeners) |-> 0]
  /\ listenerQueue = <<>>
  /\ nextId = 1
  /\ emits = <<>>
  /\ att = <<>>
  /\ errorSink = <<>>
  /\ now = startTime
  /\ lastCallTime = [id \in 1..(MaxListeners + MaxMatchListeners) |-> 0]
  /\ timeout = [id \in 1..(MaxListeners + MaxMatchListeners) |-> <<>>]
  /\ calls = <<>>

Init == construct /\ lastOff = [op |-> "unrecorded"] /\ eventHistory = noEventHistory

\* new EventEmitter() of the version that delegates to ListenerManager
InitListenerManager ==
  construct /\ lastOff = [op |-> "unrecorded"] /\ eventHistory = <<>>

\* the same, with removal calls recorded in lastOff
InitRecording ==
  construct /\ lastOff = [op |-> "none", n |-> 0] /\ eventHistory = noEventHistory

SpecEvents == {<<"*">>, <<"n", ".", "x">>}

\* The registrations: a plain listener, one capped at one invocation at a time,
\* one capped and of priority 1, and one that throws.
SpecListeners ==
  {<<"f", noOption>>,
   <<"f", [noOption EXCEPT !.concurrency = <<1>>]>>,
   <<"g", [noOption EXCEPT !.concurrency = <<1>>, !.priority = <<1>>]>>,
   <<"t", noOption>>}

\* The processListener calls emit(event) makes in the current state.
attemptsOf(event) ==
  LET M == dispatch(machine, eventNamespaces, eventFilters, Len(emits) + 1, event, <<"payload">>)
  IN  Len(M.at) - Len(att)

Next ==
  \/ \E event \in SpecEvents, l \in SpecListeners :
       emits = <<>> /\ nextId <= MaxListeners /\ on(event, l[1], l[2])
  \/ /\ Len(emits) < MaxEmits
     /\ Len(att) + attemptsOf(<<"n", ".", "x">>) <= MaxAttempts
     /\ emit(<<"n", ".", "x">>, <<"payload">>)
  \/ \E a \in 1..Len(att), outcome \in {<<>>, <<"undefined">>} :
       listenerSettles(a, outcome)

Spec == Init /\ [][Next]_vars

-----------------------------------------------------------------------------
(* Specification SpecMatch: listeners registered under the separators "."  *)
(* and ":", with and without filters, removed again by off, and emits of   *)
(* bare and namespaced events.                                             *)

colon == [noOption EXCEPT !.separator = <<":">>]

MatchRegistrations ==
  {<<<<"*">>, noOption>>,            <<<<"*">>, colon>>,
   <<<<"x">>, noOption>>,            <<<<"x">>, colon>>,
   <<<<"n", ".", "x">>, noOption>>,  <<<<"n", ":", "x">>, colon>>,
   <<<<"n", ".", "*">>, noOption>>,  <<<<"n", ":", "*">>, colon>>,
   <<<<"*", ".", "x">>, noOption>>,  <<<<"*", ":", "x">>, colon>>,
   <<<<"*">>, [noOption EXCEPT !.filter = <<"nsIsN">>]>>,
   <<<<"x">>, [noOption EXCEPT !.filter = <<"evIsX">>]>>}

MatchEmits ==
  {<<"x">>, <<"n", ".", "x">>, <<"m", ".", "x">>, <<"n", ".", "y">>, <<"n", ":", "x">>}

NextMatch ==
  \/ \E r \in MatchRegistrations :
       emits = <<>> /\ nextId <= MaxMatchListeners /\ on(r[1], "f", r[2])
  \/ \E r \in MatchRegistrations : emits = <<>> /\ off(r[1], "f")
  \/ \E event \in MatchEmits : Len(emits) < MaxMatchEmits /\ emit(event, <<"payload">>)

SpecMatch == Init /\ [][NextMatch]_vars

-----------------------------------------------------------------------------
(* Specification SpecTime: plain, throttled and debounced listeners, the    *)
(* clock and the timers.  The callbacks return without suspending, so the  *)
(* promises of the invocations settle in the order of their calls, before  *)
(* the clock moves on; a timer that is due runs before the next emit.      *)

TimeEvents == {<<"x">>, <<"*">>}

TimeOptions ==
  {noOption,
   [noOption EXCEPT !.throttle = <<Delay>>],
   [noOption EXCEPT !.debounce = <<Delay>>]}

firstRunning(a) ==
  att[a].state = "running" /\ \A b \in 1..(a - 1) : att[b].state # "running"

NextTime ==
  \/ \E event \in TimeEvents, option \in TimeOptions :
       emits = <<>> /\ nextId <= MaxTimeListeners /\ on(event, "f", option)
  \/ \E event \in TimeEvents : emits = <<>> /\ lastOff.op = "none" /\ off(event, "f")
  \/ /\ Len(emits) < MaxTimeEmits
     /\ ~timerDue
     /\ emit(<<"x">>, <<Len(emits) + 1>>)
  \/ \E a \in 1..Len(att) : firstRunning(a) /\ listenerSettles(a, <<>>)
  \/ \E id \in DOMAIN timeout : timerFires(id)
  \/ /\ now < startTime + MaxTime
     /\ \A a \in 1..Len(att) : att[a].state # "running"
     /\ tick

SpecTime == InitRecording /\ [][NextTime]_vars

-----------------------------------------------------------------------------
(* Specification SpecRegistry: registrations of two callbacks with equal   *)
(* and different priorities, under "." and under ":", and of an event      *)
(* named like a property every object inherits; removals by callback and   *)
(* by id, recorded in lastOff; emits of an event and of the wildcard        *)
(* itself, whose invocations stay in flight.                               *)

high == [noOption EXCEPT !.priority = <<1>>, !.concurrency = <<1>>]

constructorEvent == <<"c", "o", "n", "s", "t", "r", "u", "c", "t", "o", "r">>

RegRegistrations ==
  {<<<<"x">>, "f", noOption>>,
   <<<<"x">>, "g", noOption>>,
   <<<<"x">>, "f", high>>,
   <<<<"*">>, "g", noOption>>,
   <<<<"n", ":", "x">>, "f", colon>>,
   <<constructorEvent, "f", noOption>>}

RemovalEvents == {<<"x">>, <<"n", ":", "x">>, constructorEvent}

RegEmits == {<<"x">>, <<"*">>}

NextRegistry ==
  \/ \E r \in RegRegistrations :
       emits = <<>> /\ nextId <= MaxRegListeners /\ on(r[1], r[2], r[3])
  \/ \E event \in RemovalEvents, listener \in {"f", "g"} :
       lastOff.n < MaxRemovals /\ off(event, listener)
  \/ \E event \in RemovalEvents, listenerId \in 1..MaxRegListeners :
       lastOff.n < MaxRemovals /\ removeSubscription(event, listenerId)
  \/ \E event \in RegEmits : Len(emits) < MaxRegEmits /\ emit(event, <<"payload">>)

SpecRegistry == InitRecording /\ [][NextRegistry]_vars

-----------------------------------------------------------------------------
(* Specification SpecOrder: registrations of two callbacks with equal and  *)
(* different priorities in two buckets, interleaved with removals by       *)
(* callback and by id.                                                     *)

OrderRegistrations ==
  {<<<<"x">>, "f", noOption>>,
   <<<<"x">>, "g", noOption>>,
   <<<<"x">>, "f", high>>,
   <<<<"n", ".", "x">>, "g", high>>}

OrderEvents == {<<"x">>, <<"n", ".", "x">>}

NextOrder ==
  \/ \E r \in OrderRegistrations : nextId <= MaxRegListeners /\ on(r[1], r[2], r[3])
  \/ \E event \in OrderEvents, listener \in {"f", "g"} :
       lastOff.n < MaxRemovals /\ off(event, listener)
  \/ \E event \in OrderEvents, listenerId \in 1..MaxRegListeners :
       lastOff.n < MaxRemovals /\ removeSubscription(event, listenerId)

SpecOrder == InitRecording /\ [][NextOrder]_vars

-----------------------------------------------------------------------------
(* Specification SpecParse: registrations of every event string of up to   *)
(* MaxEventLen characters over a letter and the two separators, under "."  *)
(* and under ":".                                                          *)

RECURSIVE stringsOf(_, _)
stringsOf(alphabet, n) ==
  IF n = 0 THEN {<<>>}
  ELSE stringsOf(alphabet, n - 1)
       \cup {Append(s, c) : s \in stringsOf(alphabet, n - 1), c \in alphabet}

ParseEvents == stringsOf({"a", ".", ":"}, MaxEventLen)

NextParse ==
  \E event \in ParseEvents, option \in {noOption, colon} :
    nextId <= MaxParseListeners /\ on(event, "f", option)

SpecParse == Init /\ [][NextParse]_vars

-----------------------------------------------------------------------------
(* Specification SpecOptions: the global separator set to ".", ":" and "-" *)
(* between registrations with and without a separator of their own,        *)
(* removals, and emits of bare and namespaced events.                      *)

GlobalSeparators == {<<".">>, <<":">>, <<"-">>}

OptEvents == {<<"x">>, <<"n", ".", "x">>, <<"n", ":", "x">>, <<"n", "-", "x">>}

NextOptions ==
  \/ \E separator \in GlobalSeparators : setGlobalOptions([separator |-> separator])
  \/ \E event \in OptEvents, option \in {noOption, colon} :
       nextId <= MaxOptListeners /\ on(event, "f", option)
  \/ \E event \in OptEvents : off(event, "f")
  \/ \E event \in OptEvents : Len(emits) < MaxOptEmits /\ emit(event, <<"payload">>)

SpecOptions == Init /\ [][NextOptions]_vars

\* the same without emits: the calls that write the registry or the global option
NextSeparators ==
  \/ \E separator \in GlobalSeparators : setGlobalOptions([separator |-> separator])
  \/ \E event \in OptEvents, option \in {noOption, colon} :
       nextId <= MaxOptListeners /\ on(event, "f", option)
  \/ \E event \in OptEvents : off(event, "f")

SpecSeparators == Init /\ [][NextSeparators]_vars

-----------------------------------------------------------------------------
(* Specification SpecErrors: wildcard listeners that return, reject or     *)
(* throw, one of them debounced, emits of two events, the clock and the    *)
(* timers.  The promise a debounce wrapper returns resolves; the promise   *)
(* of a plain callback resolves or rejects.                                *)

ErrRegistrations ==
  {<<"f", noOption>>, <<"t", noOption>>, <<"t", [noOption EXCEPT !.debounce = <<Delay>>]>>}

ErrEmits == {<<"x">>, <<"y">>}

outcomesOf(a) ==
  IF att[a].listener.wrap = "none" THEN {<<>>, <<"Error">>} ELSE {<<>>}

NextErrors ==
  \/ \E r \in ErrRegistrations :
       emits = <<>> /\ nextId <= MaxErrListeners /\ on(<<"*">>, r[1], r[2])
  \/ \E event \in ErrEmits :
       Len(emits) < MaxErrEmits /\ ~timerDue /\ emit(event, <<"payload">>)
  \/ \E a \in 1..Len(att) : \E outcome \in outcomesOf(a) :
       firstRunning(a) /\ listenerSettles(a, outcome)
  \/ \E id \in DOMAIN timeout : timerFires(id)
  \/ /\ now < startTime + MaxTime
     /\ \A a \in 1..Len(att) : att[a].state # "running"
     /\ tick

SpecErrors == Init /\ [][NextErrors]_vars

-----------------------------------------------------------------------------
(* Specification SpecBus: registrations through the global event bus with  *)
(* a priority, a concurrency cap and a separator, overlapping emits        *)
(* through the bus, and callbacks that return.                             *)

BusEvents == {<<"x">>, <<"n", ":", "x">>}

BusOptions == {noOption, high, colon}

NextBus ==
  \/ \E event \in BusEvents, option \in BusOptions :
       emits = <<>> /\ nextId <= MaxBusListeners /\ globalEventBusOn(event, "f", option)
  \/ \E event \in BusEvents :
       Len(emits) < MaxBusEmits /\ globalEventBusEmit(event, <<"payload">>)
  \/ \E a \in 1..Len(att) : listenerSettles(a, <<>>)

SpecBus == Init /\ [][NextBus]_vars

-----------------------------------------------------------------------------
(* Specification SpecHistory: the emitter that keeps an event history.     *)
(* Listeners that return, reject or throw are registered on a bare and on  *)
(* a namespaced event; the n-th emit passes n as its argument; callbacks   *)
(* settle in any order.                                                    *)

MaxHistListeners == 2
MaxHistEmits == 2
MaxHistAttempts == 4

HistEvents == {<<"x">>, <<"n", ".", "x">>}

HistRegistrations ==
  {<<<<"x">>, "f", noOption>>,
   <<<<"n", ".", "x">>, "f", high>>,
   <<<<"x">>, "t", noOption>>}

NextHistory ==
  \/ \E r \in HistRegistrations :
       emits = <<>> /\ nextId <= MaxHistListeners /\ on(r[1], r[2], r[3])
  \/ \E event \in HistEvents :
       /\ Len(emits) < MaxHistEmits
       /\ Len(att) + attemptsOf(event) <= MaxHistAttempts
       /\ emit(event, <<Len(emits) + 1>>)
  \/ \E a \in 1..Len(att), outcome \in {<<>>, <<"Error">>} : listenerSettles(a, outcome)

SpecHistory == InitListenerManager /\ [][NextHistory]_vars

-----------------------------------------------------------------------------
(* Specification SpecFilters: callback f is registered with a filter,      *)
(* callback g without one; listeners are removed by off and by             *)
(* removeSubscription at any time, between emits of bare and namespaced    *)
(* events.                                                                 *)

MaxFilterListeners == 2
MaxFilterEmits == 1

FilterRegistrations ==
  {<<<<"*">>, "f", [noOption EXCEPT !.filter = <<"nsIsN">>]>>,
   <<<<"x">>, "f", [noOption EXCEPT !.filter = <<"evIsX">>]>>,
   <<<<"x">>, "g", noOption>>,
   <<<<"n", ".", "y">>, "g", noOption>>}

FilterEmits == {<<"x">>, <<"n", ".", "y">>}

NextFilters ==
  \/ \E r \in FilterRegistrations :
       nextId <= MaxFilterListeners /\ on(r[1], r[2], r[3])
  \/ \E r \in FilterRegistrations : off(r[1], r[2])
  \/ \E r \in FilterRegistrations, id \in 1..MaxFilterListeners :
       removeSubscription(r[1], id)
  \/ \E event \in FilterEmits :
       Len(emits) < MaxFilterEmits /\ emit(event, <<"payload">>)

SpecFilters == Init /\ [][NextFilters]_vars

-----------------------------------------------------------------------------
(* Specification SpecBoth: a listener registered with a throttle and a     *)
(* debounce option at once, or with the debounce option alone, emits, the  *)
(* clock and the timers, scheduled as in SpecTime.                         *)

MaxBothListeners == 1
MaxBothEmits == 3

throttleOnly == [noOption EXCEPT !.throttle = <<Delay>>]
throttleAndDebounce == [noOption EXCEPT !.throttle = <<Delay>>, !.debounce = <<1>>]

BothOptions == {throttleAndDebounce, [noOption EXCEPT !.debounce = <<1>>]}

NextBoth ==
  \/ \E option \in BothOptions :
       emits = <<>> /\ nextId <= MaxBothListeners /\ on(<<"x">>, "f", option)
  \/ /\ Len(emits) < MaxBothEmits
     /\ ~timerDue
     /\ emit(<<"x">>, <<Len(emits) + 1>>)
  \/ \E a \in 1..Len(att) : firstRunning(a) /\ listenerSettles(a, <<>>)
  \/ \E id \in DOMAIN timeout : timerFires(id)
  \/ /\ now < startTime + MaxTime
     /\ \A a \in 1..Len(att) : att[a].state # "running"
     /\ tick

SpecBoth == Init /\ [][NextBoth]_vars

-----------------------------------------------------------------------------
(* Specification SpecCap: listeners capped at none, at one and at two      *)
(* invocations at a time, one of them throwing, under overlapping emits;   *)
(* callbacks resolve or reject in any order.                               *)

MaxCapListeners == 2
MaxCapEmits == 4
MaxCapAttempts == 5

CapRegistrations ==
  {<<"f", [noOption EXCEPT !.concurrency = <<0>>]>>,
   <<"f", [noOption EXCEPT !.concurrency = <<1>>]>>,
   <<"f", [noOption EXCEPT !.concurrency = <<2>>]>>,
   <<"t", [noOption EXCEPT !.concurrency = <<1>>]>>}

capEmit ==
  /\ Len(emits) < MaxCapEmits
  /\ Len(att) + attemptsOf(<<"x">>) <= MaxCapAttempts
  /\ emit(<<"x">>, <<"payload">>)

callbackCompletes ==
  \E a \in 1..Len(att), outcome \in {<<>>, <<"Error">>} : listenerSettles(a, outcome)

NextCap ==
  \/ \E r \in CapRegistrations :
       emits = <<>> /\ nextId <= MaxCapListeners /\ on(<<"x">>, r[1], r[2])
  \/ capEmit
  \/ callbackCompletes

SpecCap == Init /\ [][NextCap]_vars

\* The same with fewer emits, when every callback that was called eventually
\* returns, throws, resolves or rejects.
MaxLiveListeners == 2
MaxLiveEmits == 2
MaxLiveAttempts == 4

NextCapLive ==
  \/ \E r \in CapRegistrations :
       emits = <<>> /\ nextId <= MaxLiveListeners /\ on(<<"x">>, r[1], r[2])
  \/ /\ Len(emits) < MaxLiveEmits
     /\ Len(att) + attemptsOf(<<"x">>) <= MaxLiveAttempts
     /\ emit(<<"x">>, <<"payload">>)
  \/ callbackCompletes

SpecCapLive ==
  /\ Init /\ [][NextCapLive]_vars
  /\ \A a \in 1..MaxLiveAttempts :
       WF_vars(\E outcome \in {<<>>, <<"Error">>} : listenerSettles(a, outcome))

-----------------------------------------------------------------------------
(* Specification SpecRemoval: listeners capped at one invocation at a time *)
(* are removed by off or by removeSubscription while invocations of them   *)
(* run and wait in the queue; the callbacks return afterwards.             *)

MaxRemovalListeners == 2
MaxRemovalEmits == 2

RemovalCallbacks == {"f", "g"}

NextRemoval ==
  \/ \E listener \in RemovalCallbacks :
       /\ emits = <<>> /\ nextId <= MaxRemovalListeners
       /\ on(<<"x">>, listener, [noOption EXCEPT !.concurrency = <<1>>])
  \/ \E listener \in RemovalCallbacks : off(<<"x">>, listener)
  \/ \E id \in 1..MaxRemovalListeners : removeSubscription(<<"x">>, id)
  \/ Len(emits) < MaxRemovalEmits /\ emit(<<"x">>, <<"payload">>)
  \/ \E a \in 1..Len(att) : listenerSettles(a, <<>>)

SpecRemoval == Init /\ [][NextRemoval]_vars

-----------------------------------------------------------------------------
(* Specification SpecReentrant: a listener of the global wildcard bucket   *)
(* or of the bucket of event x registers or removes callback f on event x  *)
(* when it is called, beside plain listeners of x; emits of x and of n.x.  *)

MaxReentrantListeners == 2
MaxReentrantEmits == 2

ReentrantRegistrations ==
  {<<<<"*">>, "onX">>, <<<<"*">>, "offX">>,
   <<<<"x">>, "onX">>, <<<<"x">>, "offX">>,
   <<<<"x">>, "f">>, <<<<"x">>, "g">>, <<<<"n", ".", "x">>, "g">>}

\* callbacks that enter the emitter again are registered first, one at most
NextReentrant ==
  \/ \E r \in ReentrantRegistrations :
       /\ emits = <<>> /\ nextId <= MaxReentrantListeners
       /\ r[2] \in {"onX", "offX"} => nextId = 1
       /\ on(r[1], r[2], noOption)
  \/ \E event \in {<<"x">>, <<"n", ".", "x">>} :
       Len(emits) < MaxReentrantEmits /\ emit(event, <<"payload">>)
  \/ \E a \in 1..Len(att) : listenerSettles(a, <<>>)

SpecReentrant == Init /\ [][NextReentrant]_vars

-----------------------------------------------------------------------------
(* What the claims speak of *)

Attempts == 1..Len(att)
Emits == 1..Len(emits)

running(a) == att[a].state = "running"
started(a) == att[a].start > 0
completed(a) == att[a].state \in {"ok", "failed"}
waiting(a) == att[a].state = "queued" /\ \E k \in 1..Len(listenerQueue) : listenerQueue[k].a = a

inFlight(id) == {a \in Attempts : att[a].id = id /\ running(a)}

\* a's record precedes b's in bucket order: higher priority, or equal priority
\* and registered earlier (ids are handed out in registration order)
precedes(a, b) ==
  \/ att[a].priority > att[b].priority
  \/ att[a].priority = att[b].priority /\ att[a].id < att[b].id

sameBucketOfOneEmit(a, b) ==
  att[a].emit = att[b].emit /\ att[a].group = att[b].group /\ a # b

\* the records emit e matched in group g, from the registry as emit e found it
matchedBy(e, g) ==
  IF ~emits[e].shouldEmit \/ groupSkipped(g, emits[e].namespace) THEN <<>>
  ELSE LET key == groupKeys(emits[e].namespace, emits[e].eventName)[g]
       IN  specificListeners(emits[e].reg, key[1], key[2], emits[e].separator)

-----------------------------------------------------------------------------
(* C1: a listener registered with concurrency c never has more than c      *)
(* invocations in flight, however emits overlap.                           *)
C1_ConcurrencyCap ==
  \A a \in Attempts : Cardinality(inFlight(att[a].id)) <= att[a].concurrency

\* A capped listener is at its cap while a further emit has arrived for it.
C1_Witness ==
  \E a, b \in Attempts :
    /\ att[a].id = att[b].id /\ att[a].concurrency = 1
    /\ att[a].emit # att[b].emit
    /\ running(a) /\ waiting(b)

(* C2: the promise of an emit does not resolve before every listener that  *)
(* emit matched has run and completed or failed, deferred ones included.   *)
C2_EmitAwaitsAllMatched ==
  \A e \in Emits :
    emitStatus(e) = "resolved" =>
      \A a \in Attempts : att[a].emit = e => completed(a)

(* C3: when a listener matched by an emit fails, every other record that   *)
(* emit matched, in the same bucket and in the other groups, is invoked:   *)
(* it has started, or it waits in the queue behind a running invocation of *)
(* its own listener, whose completion starts it.                           *)
C3_ErrorIsolation ==
  \A e \in Emits :
    (\E f \in Attempts : att[f].emit = e /\ att[f].state = "failed") =>
      \A g \in 1..4 : \A i \in 1..Len(matchedBy(e, g)) :
        \E a \in Attempts :
          /\ att[a].emit = e /\ att[a].group = g /\ att[a].pos = i
          /\ att[a].id = matchedBy(e, g)[i].id
          /\ \/ started(a)
             \/ waiting(a) /\ inFlight(att[a].id) # {}

\* The throwing listener leads its bucket, a second record of the bucket and a
\* record of another group were invoked after it failed.
C3_Witness ==
  \E f, a, b \in Attempts :
    /\ att[f].emit = att[a].emit /\ att[f].emit = att[b].emit
    /\ att[f].state = "failed" /\ throwsSynchronously(att[f].listener)
    /\ att[a].group = att[f].group /\ att[a].pos > att[f].pos /\ started(a)
    /\ att[b].group # att[f].group /\ att[b].start > att[f].start

C5_PriorityOrderAlways ==
  \A a, b \in Attempts :
    sameBucketOfOneEmit(a, b) /\ precedes(a, b) /\ started(b) =>
      started(a) /\ att[a].start < att[b].start

(* C5 amended: the earlier one's processListener call comes first, and its *)
(* callback is invoked first unless that call found the listener at its    *)
(* concurrency cap and deferred the invocation into the pending queue.     *)
C5_PriorityOrder ==
  \A a, b \in Attempts :
    sameBucketOfOneEmit(a, b) /\ precedes(a, b) =>
      /\ a < b
      /\ ~att[a].deferred /\ started(b) => started(a) /\ att[a].start < att[b].start

\* Two records of one bucket, of different priorities, the higher registered
\* later, both invoked by the second of two overlapping emits.
C5_Witness ==
  \E a, b \in Attempts :
    /\ sameBucketOfOneEmit(a, b) /\ att[a].emit = 2
    /\ att[a].priority > att[b].priority /\ att[a].id > att[b].id
    /\ started(a) /\ started(b) /\ ~att[a].deferred
    /\ \E c \in Attempts : att[c].emit = 1 /\ running(c)

-----------------------------------------------------------------------------
\* every record of a registry, and the one separator of a registry whose
\* records all carry the same one
recordsOf(reg) ==
  UNION {{listenersOf(reg, k[1], k[2])[i] : i \in 1..Len(listenersOf(reg, k[1], k[2]))} :
           k \in {bucketKeys(reg)[j] : j \in 1..Len(bucketKeys(reg))}}

bucketSet(reg, namespace, eventName) ==
  {listenersOf(reg, namespace, eventName)[i] :
     i \in 1..Len(listenersOf(reg, namespace, eventName))}

separatorsOf(reg) == {r.eventInfo.separator : r \in recordsOf(reg)}

invokedBy(e) == {att[a].id : a \in {b \in Attempts : att[b].emit = e}}

\* the union of the buckets <"", "*">, <ns, "*">, <"*", e> and <ns, e>
fourBuckets(reg, namespace, eventName) ==
  bucketSet(reg, <<>>, <<"*">>) \cup bucketSet(reg, namespace, <<"*">>)
    \cup bucketSet(reg, <<"*">>, eventName) \cup bucketSet(reg, namespace, eventName)

(* C6: with every listener registered under one separator and no filter,   *)
(* an emit invokes exactly the records of the four buckets of its event,   *)
(* read under that separator: global wildcard, namespace wildcard,         *)
(* wildcard namespace with the event name, and the exact pair.             *)
C6_FourGroups ==
  \A e \in Emits :
    Len(emits[e].filters) = 0 =>
      \A S \in separatorsOf(emits[e].reg) :
        separatorsOf(emits[e].reg) = {S} =>
          LET pe == parseEvent(emits[e].event, S)
          IN  invokedBy(e) = {r.id : r \in fourBuckets(emits[e].reg, pe[1], pe[2])}

(* C7: a listener registered on "*" is invoked by every emit that passes   *)
(* the filter gate, whatever else is registered.                           *)
C7_GlobalWildcard ==
  \A e \in Emits :
    emits[e].shouldEmit =>
      \A r \in recordsOf(emits[e].reg) :
        r.eventInfo.event = <<"*">> => r.id \in invokedBy(e)

(* C8: an event string registered under exactly one separator resolves to  *)
(* that separator on emit, whatever else is registered, and the emit       *)
(* invokes its listener.                                                   *)
C8_RegisteredEventResolves ==
  \A e \in Emits :
    LET same == {r \in recordsOf(emits[e].reg) : r.eventInfo.event = emits[e].event}
    IN  \A r \in same :
          (\A r2 \in same : r2.eventInfo.separator = r.eventInfo.separator) =>
            /\ emits[e].separator = r.eventInfo.separator
            /\ emits[e].shouldEmit => r.id \in invokedBy(e)

(* C9: an emit invokes only records whose stored separator is the          *)
(* separator resolved for that emit.                                       *)
C9_SeparatorIsolation ==
  \A a \in Attempts : att[a].eventInfo.separator = emits[att[a].emit].separator

\* A bucket holds records of both separators; the emit invoked one of them and
\* not the other.
C9_Witness ==
  \E a \in Attempts :
    LET e == att[a].emit
        key == groupKeys(emits[e].namespace, emits[e].eventName)[att[a].group]
    IN  \E r \in bucketSet(emits[e].reg, key[1], key[2]) :
          /\ r.eventInfo.separator # att[a].eventInfo.separator
          /\ r.id \notin invokedBy(e)

\* what emit e matches once past the gate
matchedPastGate(e, g) ==
  IF groupSkipped(g, emits[e].namespace) THEN <<>>
  ELSE LET key == groupKeys(emits[e].namespace, emits[e].eventName)[g]
       IN  specificListeners(emits[e].reg, key[1], key[2], emits[e].separator)

someFilterAccepts(e) ==
  \E i \in 1..Len(emits[e].filters) :
    filterFn(emits[e].filters[i], emits[e].eventName, emits[e].namespace)

(* C10: an emit invokes its listeners if and only if no filter is          *)
(* registered or some registered filter accepts its (eventName,            *)
(* namespace); when every filter refuses, it invokes none and resolves.    *)
C10_FilterGate ==
  \A e \in Emits :
    IF Len(emits[e].filters) = 0 \/ someFilterAccepts(e)
    THEN \A g \in 1..4 : \A i \in 1..Len(matchedPastGate(e, g)) :
           matchedPastGate(e, g)[i].id \in invokedBy(e)
    ELSE invokedBy(e) = {} /\ emitStatus(e) = "resolved"

\* Two filters are registered; one emit is accepted by one of them and refused
\* by the other, and a listener ran; another emit, which has a listener to
\* invoke, is refused by both.
C10_Witness ==
  \E e \in Emits :
    /\ \E i, j \in 1..Len(emits[e].filters) :
         /\ filterFn(emits[e].filters[i], emits[e].eventName, emits[e].namespace)
         /\ ~filterFn(emits[e].filters[j], emits[e].eventName, emits[e].namespace)
    /\ invokedBy(e) # {}
    /\ \E v \in Emits :
         /\ Len(emits[v].filters) > 0 /\ ~someFilterAccepts(v)
         /\ \E g \in 1..4 : Len(matchedPastGate(v, g)) > 0

-----------------------------------------------------------------------------
\* the executions of the user callback that invocation a led to
callsOf(a) == {i \in 1..Len(calls) : calls[i].a = a}

\* the started calls of the wrapper of one throttled or debounced listener
wrapperCalls(kind) == {a \in Attempts : started(a) /\ att[a].listener.wrap = kind}

\* the registrations an off call names: the records registered with its event
\* string and its callback
namedBy(removal) ==
  {r \in recordsOf(removal.before) :
     r.eventInfo.event = removal.event /\ r.listener.fn = removal.listenerOrId[2]}

(* C11: after off(E, cb), for a callback registered once on E with any     *)
(* options, no later emit runs cb through that registration.               *)
C11_OffStopsCallback ==
  (lastOff.op = "off" /\ Cardinality(namedBy(lastOff)) = 1) =>
    \A i \in 1..Len(calls) :
      (\E r \in namedBy(lastOff) : r.id = calls[i].id) =>
        att[calls[i].a].emit <= lastOff.emits

(* C13: every user callback, wrapped or not, receives the emit's event     *)
(* name followed by the emit's arguments.                                  *)
C13_CallbackArguments ==
  \A i \in 1..Len(calls) :
    LET e == att[calls[i].a].emit
    IN  calls[i].received = <<emits[e].eventName>> \o emits[e].args

\* the calls of the same wrapper that ran the callback before call a
ranBefore(a) ==
  {b \in wrapperCalls("throttle") :
     att[b].id = att[a].id /\ att[b].start < att[a].start /\ callsOf(b) # {}}

(* C14: a throttled callback runs on the first call of its wrapper and     *)
(* afterwards exactly on the calls that arrive at least the delay after    *)
(* the last call that ran it; it runs within that call, never later.       *)
C14_Throttle ==
  \A a \in wrapperCalls("throttle") :
    /\ callsOf(a) # {} <=>
         \A b \in ranBefore(a) : att[a].time - att[b].time >= att[a].listener.delay
    /\ Cardinality(callsOf(a)) <= 1
    /\ \A i \in callsOf(a) : calls[i].time = att[a].time

\* One throttled listener ran on its first call, dropped a call, and ran again
\* on a call that came the delay after the first.
C14_Witness ==
  \E a, b, c \in wrapperCalls("throttle") :
    /\ att[a].id = att[b].id /\ att[b].id = att[c].id
    /\ att[a].start < att[b].start /\ att[b].start < att[c].start
    /\ callsOf(a) # {} /\ callsOf(b) = {} /\ callsOf(c) # {}
    /\ att[c].time - att[a].time = att[a].listener.delay

\* a later call of the same debounce wrapper, made before the delay has passed
supersededInBurst(a) ==
  \E b \in wrapperCalls("debounce") :
    /\ att[b].id = att[a].id /\ att[b].start > att[a].start
    /\ att[b].time - att[a].time < att[a].listener.delay

pendingTimer(a) ==
  /\ callsOf(a) = {}
  /\ \E k \in 1..Len(timeout[att[a].id]) : timeout[att[a].id][k].a = a
  /\ now <= att[a].time + att[a].listener.delay

(* C15: of a burst of calls of a debounced listener, each less than the    *)
(* delay after the one before, only the last leads to an execution of the  *)
(* callback: exactly one, the delay after that call and with its           *)
(* arguments; the same holds of a later burst.                             *)
C15_Debounce ==
  \A a \in wrapperCalls("debounce") :
    IF supersededInBurst(a) THEN callsOf(a) = {}
    ELSE \/ pendingTimer(a)
         \/ /\ Cardinality(callsOf(a)) = 1
            /\ \A i \in callsOf(a) :
                 /\ calls[i].time = att[a].time + att[a].listener.delay
                 /\ endsWith(calls[i].received, att[a].args)

\* A burst of two calls led to one execution, with the second call's
\* arguments, and a later call to one more.
C15_Witness ==
  \E a, b, c \in wrapperCalls("debounce") :
    /\ att[a].id = att[b].id /\ att[b].id = att[c].id
    /\ att[a].start < att[b].start /\ att[b].start < att[c].start
    /\ supersededInBurst(a) /\ callsOf(a) = {}
    /\ Cardinality(callsOf(b)) = 1 /\ Cardinality(callsOf(c)) = 1
    /\ att[b].args # att[a].args

-----------------------------------------------------------------------------
(* C16: invocations of one listener that were deferred at its concurrency  *)
(* cap start in the order in which they arrived: while an invocation of a  *)
(* listener waits in the queue, no invocation of the same listener that    *)
(* arrived after it has started.                                           *)
C16_DeferredFifo ==
  \A a \in Attempts, b \in Attempts :
    (att[a].id = att[b].id /\ a < b /\ waiting(a)) => ~started(b)

\* Three invocations of one capped listener arrived; the second was deferred
\* and has started, the third still waits.
C16_Witness ==
  \E a \in Attempts, b \in Attempts :
    /\ att[a].id = att[b].id /\ a < b
    /\ att[a].deferred /\ started(a)
    /\ waiting(b)

-----------------------------------------------------------------------------
(* The registry as the claims see it *)

\* the buckets of a registry, as sequences of records
bucketsOf(reg) ==
  {listenersOf(reg, bucketKeys(reg)[k][1], bucketKeys(reg)[k][2]) :
     k \in 1..Len(bucketKeys(reg))}

idsOf(reg) == {l.id : l \in recordsOf(reg)}

\* a record is what a removal names: by id, or by the callback it was
\* registered with
named(l, listenerOrId) ==
  IF listenerOrId[1] = "id" THEN l.id = listenerOrId[2]
  ELSE l.listener.fn = listenerOrId[2]

\* no bucket the removal's event string can denote holds a record the removal names
noMatch(removal) ==
  \A separator \in {defaultSeparator} \cup separatorsOf(removal.before) :
    \A l \in recordsOf(removal.before) :
      (parseEvent(l.eventInfo.event, l.eventInfo.separator)
         = parseEvent(removal.event, separator))
      => ~named(l, removal.listenerOrId)

(* C12: off(E, cb), when no record of E's bucket has callback cb, does not  *)
(* throw and changes nothing: not the buckets, not the filter set, not the *)
(* in-flight counters, not the pending queue.                              *)
C12_OffNoMatchIsNoOp ==
  [][(lastOff'.n = lastOff.n + 1 /\ lastOff'.op = "off" /\ noMatch(lastOff'))
     => (~lastOff'.threw
         /\ UNCHANGED <<eventNamespaces, eventFilters, executingListeners,
                        listenerQueue>>)]_vars

\* the records emit e matches: those of its groups' buckets that were
\* registered under the separator the emit resolved
matchedRecords(e) ==
  LET keys == groupKeys(emits[e].namespace, emits[e].eventName)
  IN  {l \in recordsOf(emits[e].reg) :
         \E g \in 1..4 :
           /\ ~groupSkipped(g, emits[e].namespace)
           /\ \E i \in 1..Len(listenersOf(emits[e].reg, keys[g][1], keys[g][2])) :
                listenersOf(emits[e].reg, keys[g][1], keys[g][2])[i] = l
           /\ l.eventInfo.separator = emits[e].separator}

attemptsFor(e, id) == {a \in Attempts : att[a].emit = e /\ att[a].id = id}

(* C17: every record an emit matches gets exactly one invocation attempt   *)
(* for that emit, whatever the emitted event string: never none, never two.*)
C17_ExactlyOneAttempt ==
  \A e \in Emits :
    emits[e].shouldEmit =>
      \A l \in matchedRecords(e) : Cardinality(attemptsFor(e, l.id)) = 1

sortedBucket(ls) ==
  \A i \in 1..Len(ls), j \in 1..Len(ls) :
    i < j => \/ ls[i].priority > ls[j].priority
             \/ ls[i].priority = ls[j].priority /\ ls[i].id < ls[j].id

(* C18: after any sequence of on, off and removeSubscription calls every   *)
(* bucket is ordered by non-increasing priority, and records of equal      *)
(* priority are in the order of their registration.                        *)
C18_BucketsSorted == \A ls \in bucketsOf(eventNamespaces) : sortedBucket(ls)

\* A bucket held a record of higher priority in front of two equal ones that
\* were registered before it, and a removal has taken one of the three out.
C18_Witness ==
  /\ lastOff.op # "none"
  /\ eventNamespaces = lastOff.after
  /\ \E ls \in bucketsOf(lastOff.before) :
       /\ Len(ls) = 3
       /\ ls[1].priority > ls[2].priority /\ ls[2].priority = ls[3].priority
       /\ ls[1].id > ls[3].id
       /\ \E ms \in bucketsOf(eventNamespaces) :
            Len(ms) = 2 /\ {ms[1].id, ms[2].id} \subseteq {ls[1].id, ls[2].id, ls[3].id}

(* C19: after any sequence of on, off and removeSubscription calls the     *)
(* registry has no empty bucket and no namespace entry without a bucket.   *)
C19_NoEmptyContainers ==
  \A n \in 1..Len(eventNamespaces) :
    /\ Len(eventNamespaces[n].events) > 0
    /\ \A e \in 1..Len(eventNamespaces[n].events) :
         Len(eventNamespaces[n].events[e].listeners) > 0

\* the records registered under the removal's event string that it names
targets(removal) ==
  {l \in recordsOf(removal.before) :
     l.eventInfo.event = removal.event /\ named(l, removal.listenerOrId)}

\* the first record of sequence ls that the removal names
firstNamed(ls, listenerOrId) ==
  CHOOSE i \in 1..Len(ls) :
    named(ls[i], listenerOrId) /\ \A j \in 1..(i - 1) : ~named(ls[j], listenerOrId)

\* after is before without the first named record of one bucket
removesFirstNamed(removal) ==
  \E ls \in bucketsOf(removal.before) :
    /\ \E i \in 1..Len(ls) : named(ls[i], removal.listenerOrId)
    /\ idsOf(removal.after)
         = idsOf(removal.before) \ {ls[firstNamed(ls, removal.listenerOrId)].id}
    /\ \A ms \in bucketsOf(removal.after) :
         \E ks \in bucketsOf(removal.before) :
           LET Kept(l) == l.id \in idsOf(removal.after) IN ms = SelectSeq(ks, Kept)

(* C20: a removal, off(E, cb) or removeSubscription(E, id), of a record    *)
(* registered under E removes exactly one record, the first of its bucket  *)
(* that matches, leaves every other record and their order as they were,   *)
(* and inspectSubscription(E) no longer lists the removed id.              *)
C20_RemovesExactlyOne ==
  (lastOff.op \in {"off", "removeSubscription"} /\ targets(lastOff) # {})
  => /\ removesFirstNamed(lastOff)
     /\ \A l \in recordsOf(lastOff.before) :
          l.id \notin idsOf(lastOff.after)
          => \A i \in 1..Len(inspectSubscription(lastOff.after, lastOff.event)) :
               inspectSubscription(lastOff.after, lastOff.event)[i].id # l.id

-----------------------------------------------------------------------------
(* Parsing *)

RECURSIVE join(_, _)
join(parts, separator) ==
  IF Len(parts) = 0 THEN <<>>
  ELSE IF Len(parts) = 1 THEN parts[1]
  ELSE parts[1] \o separator \o join(Tail(parts), separator)

\* the event string up to its last separator, and the segment behind it
lastSegmentParse(event, separator) ==
  LET parts == split(event, separator)
  IN  IF Len(parts) = 1 THEN <<<<>>, event>>
      ELSE <<join(SubSeq(parts, 1, Len(parts) - 1), separator), parts[Len(parts)]>>

(* C21: parse(event, separator) gives namespace "" and the whole event when *)
(* the separator does not occur in it; otherwise the event name is the     *)
(* last segment and the namespace everything before that segment.  Stated  *)
(* of the bucket on files a record under.                                  *)
C21_ParseLastSegment ==
  \A k \in 1..Len(bucketKeys(eventNamespaces)) :
    \A l \in bucketSet(eventNamespaces, bucketKeys(eventNamespaces)[k][1],
                       bucketKeys(eventNamespaces)[k][2]) :
      bucketKeys(eventNamespaces)[k]
        = lastSegmentParse(l.eventInfo.event, l.eventInfo.separator)

-----------------------------------------------------------------------------
(* Separators *)

\* findEventInfo meets no bucket that gives a separator for the event
noSeparatorFound(event, reg) ==
  \A k \in 1..Len(bucketKeys(reg)) :
    findSeparatorForEvent(event, reg, bucketKeys(reg)[k][1], bucketKeys(reg)[k][2],
                          bucketKeys(reg)[k][2] = defaultWildCard) = <<>>

(* C22: when the separator resolution of an emit finds no registered       *)
(* listener for the event string, the emit parses the event with the       *)
(* global separator of the dispatcher, the one given to the constructor or *)
(* to setGlobalOptions.                                                    *)
C22_FallbackIsGlobalSeparator ==
  [][Len(emits') = Len(emits) + 1
     => (noSeparatorFound(emits'[Len(emits')].event, emits'[Len(emits')].reg)
         => emits'[Len(emits')].separator = globalOption.separator)]_vars

\* the bucket key under which the record of an id is filed
bucketOf(reg, id) ==
  CHOOSE key \in {bucketKeys(reg)[k] : k \in 1..Len(bucketKeys(reg))} :
    \E l \in bucketSet(reg, key[1], key[2]) : l.id = id

\* the record on has just filed carries this separator
registeredWith(separator) ==
  \E l \in recordsOf(eventNamespaces') :
    l.id = nextId /\ l.eventInfo.separator = separator

\* every record a step keeps has the separator, the event string and the
\* bucket it had
recordsKeepPlace ==
  \A l \in recordsOf(eventNamespaces) :
    l.id \in {m.id : m \in recordsOf(eventNamespaces')}
    => /\ \E m \in recordsOf(eventNamespaces') : m.id = l.id /\ m.eventInfo = l.eventInfo
       /\ bucketOf(eventNamespaces', l.id) = bucketOf(eventNamespaces, l.id)

(* C23: the separator stored in a record is the separator option of its    *)
(* registration when that is given and not empty, and otherwise the global *)
(* separator at the moment of the on call; no later call, setGlobalOptions *)
(* included, changes the stored separator or the bucket of a record.       *)
C23_StoredSeparator ==
  [][/\ \A event \in OptEvents, option \in {noOption, colon} :
          on(event, "f", option)
          => registeredWith(IF option.separator # <<>> THEN option.separator
                            ELSE globalOption.separator)
     /\ recordsKeepPlace]_vars

\* Two records carry different separators, the first took the global
\* separator of its time, and the global separator has been changed since to
\* one that neither carries.
C23_Witness ==
  \E l \in recordsOf(eventNamespaces), m \in recordsOf(eventNamespaces) :
    /\ l.id < m.id
    /\ l.eventInfo.separator = <<"-">> /\ m.eventInfo.separator = <<":">>
    /\ globalOption.separator = <<".">>

(* C24: listSubscriptions has exactly one entry for every non-empty bucket; *)
(* the entry counts the records of the bucket and names the event string   *)
(* under which they were registered, whatever their separator.             *)
C24_ListSubscriptions ==
  /\ Len(listSubscriptions(eventNamespaces)) = Cardinality(bucketsOf(eventNamespaces))
  /\ \A k \in 1..Len(bucketKeys(eventNamespaces)) :
       LET key == bucketKeys(eventNamespaces)[k]
       IN  /\ listSubscriptions(eventNamespaces)[k].listenerCount
                = Cardinality(bucketSet(eventNamespaces, key[1], key[2]))
           /\ \A l \in bucketSet(eventNamespaces, key[1], key[2]) :
                listSubscriptions(eventNamespaces)[k].event = l.eventInfo.event

-----------------------------------------------------------------------------
(* Errors *)

\* the user callback of call i of calls throws
callThrows(i) == att[calls[i].a].listener.fn = "t"

\* the executions of user callbacks for emits of eventName that threw, and
\* the invocations for them whose plain callback rejected
thrownFor(eventName) ==
  {i \in 1..Len(calls) : callThrows(i) /\ att[calls[i].a].eventName = eventName}

rejectedFor(eventName) ==
  {a \in Attempts : /\ att[a].state = "failed" /\ att[a].listener.fn # "t"
                    /\ att[a].eventName = eventName}

reportsFor(eventName) ==
  {k \in 1..Len(errorSink) : errorSink[k].eventName = eventName}

(* C25: every listener invocation that throws or rejects is reported to    *)
(* the error sink exactly once, with the event name of its emit, and an    *)
(* invocation that completes normally reports nothing: for every event     *)
(* name, the sink holds as many reports as callbacks have failed.          *)
C25_EveryFailureReportedOnce ==
  \A eventName \in {<<"x">>, <<"y">>} :
    Cardinality(reportsFor(eventName))
      = Cardinality(thrownFor(eventName)) + Cardinality(rejectedFor(eventName))

-----------------------------------------------------------------------------
(* C26: a registration through globalEventBus.on(E, cb, options) is the    *)
(* registration on(E, cb, options) on the emitter of the bus, with every   *)
(* option of the bag in effect: filter, throttle, debounce, priority,      *)
(* separator and concurrency.                                              *)
C26_BusOnIsEmitterOn ==
  [][\A event \in BusEvents, option \in BusOptions :
       globalEventBusOn(event, "f", option) => on(event, "f", option)]_vars

\* The invocations that complete without error in the step.
newlyOk ==
  {a \in 1..Len(att') : att'[a].state = "ok" /\ (a > Len(att) \/ att[a].state # "ok")}

historyEntryOf(inv, timestamp) ==
  [event |-> inv.eventName, listenerId |-> inv.id, timestamp |-> timestamp,
   args |-> inv.args]

\* C27: every step in which an invocation completes without error appends
\* exactly one entry -- its event name, listener id and arguments -- to the end
\* of the event history, and every other step, a failing invocation included,
\* leaves the history as it is; so the history holds one entry per invocation
\* completed without error, n after n emits to one plain listener.
C27_HistoryAppendsOnSuccess ==
  [][/\ \/ newlyOk = {} /\ eventHistory' = eventHistory
        \/ \E a \in newlyOk :
             /\ newlyOk = {a}
             /\ eventHistory' = Append(eventHistory, historyEntryOf(att'[a], now))
     /\ Len(eventHistory') = Cardinality({a \in 1..Len(att') : att'[a].state = "ok"})]_vars

\* Two entries in completion order, the later emit's first, beside an
\* invocation that failed and left no entry.
C27_Witness ==
  /\ Len(eventHistory) >= 2
  /\ eventHistory[1].args[1] > eventHistory[2].args[1]
  /\ \E a \in Attempts : att[a].state = "failed"

\* The history entries produced by emits of the event string: the n-th emit
\* passes n, so an entry names its emit.
producedByEmitsOf(event) ==
  LET OfEvent(entry) == emits[entry.args[1]].event = event
  IN  SelectSeq(eventHistory, OfEvent)

\* C28: getSpecificEventHistory(E) returns exactly the history entries that
\* emits of the event string E produced, for a bare E and for an E with a
\* namespace.
C28_SpecificHistoryOfEventString ==
  \A event \in HistEvents :
    getSpecificEventHistory(eventHistory, event) = producedByEmitsOf(event)

isPrefix(s, u) == Len(s) <= Len(u) /\ SubSeq(u, 1, Len(s)) = s

\* C29: no step takes a filter out of the filter set -- a removal of listeners
\* leaves the set as it is -- and every emit is gated by the whole set as it
\* stands: the emit invokes listeners only if a filter of the set accepts its
\* event, whether or not the listeners that supplied the filters are still
\* registered and whether or not the listeners it matches supplied one.
C29_FiltersOutliveListeners ==
  [][/\ isPrefix(eventFilters, eventFilters')
     /\ idsOf(eventNamespaces') # idsOf(eventNamespaces) /\ nextId' = nextId
          => eventFilters' = eventFilters
     /\ Len(emits') > Len(emits) =>
          LET e == Len(emits')
          IN  /\ emits'[e].filters = eventFilters
              /\ emits'[e].shouldEmit
                   = shouldEmitOf(eventFilters, emits'[e].eventName, emits'[e].namespace)
              /\ ~emits'[e].shouldEmit => \A a \in 1..Len(att') : att'[a].emit # e]_vars

\* An emit that matches registered listeners, none of which supplied a filter,
\* and invokes none: the filter that rejects its event came from a listener
\* removed before the emit.
C29_Witness ==
  \E e \in Emits :
    /\ ~emits[e].shouldEmit
    /\ matchedRecords(e) # {}
    /\ \A l \in recordsOf(emits[e].reg) : l.listener.fn = "g"
    /\ attemptsFor(e, 1) \cup attemptsFor(e, 2) = {}

\* The invocations that complete in the step, without error or with one.
completedNow ==
  {a \in 1..Len(att') : /\ att'[a].state \in {"ok", "failed"}
                        /\ (a > Len(att) \/ att[a].state \notin {"ok", "failed"})}

queuedFor(id) == {k \in 1..Len(listenerQueue) : listenerQueue[k].id = id}

\* the step gives the slot of invocation a back and starts the listener's
\* first queued invocation, if there is one
releasesAndDrains(a) ==
  LET id == att'[a].id
      queued == queuedFor(id)
      first == CHOOSE k \in queued : \A j \in queued : k <= j
  IN  IF a > Len(att) THEN executingListeners'[id] = executingListeners[id]
      ELSE IF queued = {}
      THEN /\ executingListeners'[id] = executingListeners[id] - 1
           /\ listenerQueue' = listenerQueue
      ELSE /\ executingListeners'[id] = executingListeners[id]
           /\ listenerQueue' = removeAt(listenerQueue, first)
           /\ att[listenerQueue[first].a].state = "queued"
           /\ att'[listenerQueue[first].a].state = "running"

\* C30: the step in which an invocation completes releases its concurrency
\* slot and starts the first queued invocation of the same listener, if any,
\* and it does so when the invocation failed just as when it succeeded.
C30_FailureReleasesSlot ==
  [][\A a \in completedNow : releasesAndDrains(a)]_vars

\* A listener capped at one invocation at a time none of whose invocations
\* succeeded: one failed, and a deferred one of the same listener is running.
C30_Witness ==
  \E a, b \in Attempts :
    /\ att[a].state = "failed" /\ att[a].concurrency = 1
    /\ att[b].id = att[a].id /\ att[b].deferred /\ att[b].state = "running"
    /\ \A c \in Attempts : att[c].id = att[a].id => att[c].state # "ok"

\* C31: when the timer of a debounced listener fires and the user callback
\* throws, the error is caught and reported through the error sink under the
\* listener's event name, and does not escape as an uncaught error.
C31_DebouncedErrorReported ==
  [][\A id \in DOMAIN timeout :
       (timerFires(id) /\ att[timeout[id][1].a].listener.fn = "t")
       => /\ ~calls'[Len(calls')].escapes
          /\ errorSink' = handleListenerError(errorSink, timeout[id][1].received[1],
                                              "Error")]_vars

\* the step in which invocation a completes starts the queued invocation b
drains(a, b) ==
  /\ a \in completedNow
  /\ b \in 1..Len(att) /\ att[b].state = "queued" /\ att'[b].state = "running"
  /\ att[b].id = att'[a].id

\* C32: an invocation drained from the queue joins the promise chain of the
\* invocation whose completion drained it, and so on down the chain; the
\* emit at the head of the chain has not resolved while an invocation of the
\* chain is running: the promise of the chain is still one of those its
\* Promise.all waits for.
C32_EmitAwaitsDrainedChain ==
  [][/\ \A a \in 1..Len(att'), b \in 1..Len(att') :
          drains(a, b) => att'[b].root = att'[a].root
     /\ \A b \in 1..Len(att') :
          att'[b].state = "running" =>
            /\ ~att'[b].deferred => att'[b].root = att'[b].emit
            /\ emits'[att'[b].root].pend > 0]_vars

\* The first emit's invocation drained the second emit's, which completed and
\* drained the third emit's, which is running: the first emit is pending, the
\* second has resolved.
C32_Witness ==
  \E b, c \in Attempts :
    /\ att[b].deferred /\ att[c].deferred /\ att[b].id = att[c].id
    /\ att[b].emit = 2 /\ att[c].emit = 3 /\ att[b].root = 1 /\ att[c].root = 1
    /\ completed(b) /\ running(c)
    /\ emitStatus(1) = "pending" /\ emitStatus(2) = "resolved"

\* C33: a registration with both a throttle and a debounce option is the
\* registration with the throttle option alone -- the same record with the
\* same throttle wrapper is filed -- and the listener never has a debounce
\* timer: its callback runs only inside the emit that invokes it.
C33_ThrottleTakesPrecedence ==
  [][/\ on(<<"x">>, "f", throttleAndDebounce) => on(<<"x">>, "f", throttleOnly)
     /\ \A l \in recordsOf(eventNamespaces') :
          l.listener.wrap = "throttle" =>
            /\ timeout'[l.id] = <<>>
            /\ \A i \in 1..Len(calls') :
                 calls'[i].id = l.id => calls'[i].time = att'[calls'[i].a].time]_vars

\* The listener registered with both options ran its callback for one emit
\* and, within the throttle delay, dropped another.
C33_Witness ==
  \E a, b \in Attempts :
    /\ att[a].id = att[b].id /\ att[a].listener.wrap = "throttle"
    /\ completed(a) /\ completed(b)
    /\ (\E i \in 1..Len(calls) : calls[i].a = a)
    /\ ~(\E i \in 1..Len(calls) : calls[i].a = b)

\* C34: whenever the queue holds a task of a listener, the in-flight counter of
\* the listener equals its concurrency cap: no invocation waits while a slot
\* of its listener is free.
C34_QueuedOnlyAtCap ==
  \A k \in 1..Len(listenerQueue) :
    executingListeners[listenerQueue[k].id] = listenerQueue[k].concurrency

\* A listener capped at two has two invocations in flight and a third in the
\* queue, after an earlier invocation of it completed.
C34_Witness ==
  \E k \in 1..Len(listenerQueue) :
    /\ listenerQueue[k].concurrency = 2
    /\ Cardinality(inFlight(listenerQueue[k].id)) = 2
    /\ \E a \in Attempts : att[a].id = listenerQueue[k].id /\ completed(a)

counterIsInFlight ==
  \A id \in DOMAIN executingListeners :
    executingListeners[id] = Cardinality(inFlight(id)) /\ executingListeners[id] >= 0

quiescent == \A a \in Attempts : ~running(a)

\* C35 as claimed: the in-flight counter of a listener is the number of its
\* invocations that have started and not completed, never negative, and when
\* no started callback is left to complete all counters are 0 and the queue
\* is empty.
C35_CountersAndQueueDrain ==
  /\ counterIsInFlight
  /\ quiescent => /\ \A id \in DOMAIN executingListeners : executingListeners[id] = 0
                  /\ listenerQueue = <<>>

\* C35 amended: the same, the queue then holding no invocation of a listener
\* whose concurrency is 1 or more; the invocations of a listener registered
\* with concurrency 0 stay in the queue.
C35_CountersAndQueueDrainCapped ==
  /\ counterIsInFlight
  /\ quiescent => /\ \A id \in DOMAIN executingListeners : executingListeners[id] = 0
                  /\ \A k \in 1..Len(listenerQueue) : listenerQueue[k].concurrency < 1

\* Every callback has completed, among them a deferred one and a failed one
\* of a listener capped at one, beside a queue that still holds an invocation
\* of a listener of concurrency 0.
C35_Witness ==
  /\ quiescent
  /\ \E a, b \in Attempts :
       /\ att[a].id = att[b].id /\ att[a].concurrency = 1
       /\ att[a].state = "failed" /\ att[b].deferred /\ completed(b)
  /\ listenerQueue # <<>>

\* C36: an invocation that waits in the queue, of a listener whose
\* concurrency is 1 or more, is eventually started, when every callback
\* eventually completes.
C36_DeferredEventuallyStarts ==
  \A a \in 1..MaxLiveAttempts :
    (a <= Len(att) /\ waiting(a) /\ att[a].concurrency >= 1)
      ~> (a <= Len(att) /\ started(a))

\* Two listeners capped at one each deferred an invocation, and both deferred
\* invocations have started, the one queued second first.
C36_Witness ==
  \E a, b \in Attempts :
    /\ a < b /\ att[a].id # att[b].id
    /\ att[a].concurrency = 1 /\ att[b].concurrency = 1
    /\ att[a].deferred /\ started(a) /\ att[b].deferred /\ started(b)
    /\ att[b].start < att[a].start

\* the invocations that start in the step
startsNow ==
  {a \in 1..Len(att') : att'[a].start > 0 /\ (a > Len(att) \/ att[a].start = 0)}

\* C37: an invocation starts only for a listener that is registered when it
\* starts: once off or removeSubscription has removed a listener, none of its
\* invocations starts, those deferred into the queue before the removal
\* included.
C37_NoStartAfterRemoval ==
  [][\A a \in startsNow : att'[a].id \in idsOf(eventNamespaces)]_vars

\* C38: the listeners an emit invokes are the records its four groups match
\* in the registry as it stood when emit was called, whatever a listener
\* registers or removes while the emit is dispatching.
C38_EmitInvokesSnapshot ==
  \A e \in Emits :
    emits[e].shouldEmit => invokedBy(e) = {l.id : l \in matchedRecords(e)}

====
